---- MODULE Spec2Model ----
(***************************************************************************)
(* ArenaAlloc: the arena allocator of src/src/arenaalloc.h.               *)
(*                                                                         *)
(* An Alloc<T,AllocatorImpl> handle points (m_impl) to a reference counted *)
(* _memblockimpl (the arena state), which owns a linked chain of _memblock *)
(* bump buffers.  All storage (arena state, block headers, block buffers)  *)
(* comes from an AllocatorImpl backing store.  The backing store modelled  *)
(* is MMappedRegion of src/src/example3.cpp, the stateful store of the     *)
(* repository: a bump allocator over one mapping that throws when full.    *)
(*                                                                         *)
(* std::size_t is modelled as SizeBits-bit modular arithmetic (Wrap).      *)
(* Pointers are addresses (naturals); 0 is the null pointer.               *)
(***************************************************************************)
EXTENDS Integers, Sequences, FiniteSets, Bags, TLC

\* ------------------------------------------------------------------ bounds
SizeBits == 16
RegionBytes == 1024
MaxHandles == 3
MaxAllocs == 2

\* ------------------------------------------------------- program constants
AlignUnit == 8
MinDefaultSize == 256
SizeofMemblock == 32
SizeofMemblockimpl == 64
SizeofMemblockimplExt == 80

Modulus == 2 ^ SizeBits

\* std::size_t arithmetic: every result is reduced modulo 2^SizeBits
Wrap(x) == x % Modulus

\* the two mappings of example3.cpp (r1, r2); each arena is built on its own
Regions == {1, 2}
RegionAddr(r) == r * 4096

\* inputs: the defaultSize of a constructor, sizeof(T) of a handle's element
\* type (char, double), and the element counts passed to Alloc::allocate
DefaultSizes == {100, 260}
ElemSizes == {1, 8}
Counts == {0, 31, 300, Modulus \div 2, Modulus - 1}

NULL == 0
\* the value of a pointer member no constructor initialises
Indeterminate == -1
\* a non-null garbage pointer read from an uninitialised member
Stray == -2

VARIABLES impl, handles, crashed, returned, released, teardowns, last, numAllocs, thr,
          ext, via

vars == <<impl, handles, crashed, returned, released, teardowns, last, numAllocs, thr, ext,
          via>>

\* ---------------------------------------------------------- MMappedRegion
MMappedRegion(r) ==
  [m_addr |-> RegionAddr(r), m_numTotalBytes |-> RegionBytes, m_numBytesAllocated |-> 0,
   handedOut |-> <<>>]

\* MMappedRegion::allocate: ok = FALSE stands for the std::runtime_error thrown
MMappedRegion_allocate(store, numBytes) ==
  IF store.m_numTotalBytes > Wrap(store.m_numBytesAllocated + numBytes)
  THEN [ok |-> TRUE,
        ptr |-> Wrap(store.m_addr + store.m_numBytesAllocated),
        store |-> [store EXCEPT !.m_numBytesAllocated = Wrap(@ + numBytes),
                                !.handedOut = Append(@, Wrap(store.m_addr +
                                                            store.m_numBytesAllocated))]]
  ELSE [ok |-> FALSE, ptr |-> NULL, store |-> store]

\* --------------------------------------------------------------- _memblock
\* mutant: sizes are taken as they come, without rounding
roundSize_unrounded(numBytes) == numBytes

roundSize(numBytes) ==
  Wrap((Wrap(numBytes + AlignUnit - 1) \div AlignUnit) * AlignUnit)

\* _memblock::_memblock placed at header address self; m_next is not initialised
memblock_new(self, bufferSize, buffer) ==
  [self |-> self, m_next |-> Indeterminate, m_bufferSize |-> roundSize(bufferSize),
   m_index |-> 0, m_buffer |-> buffer, requested |-> bufferSize]

\* _memblock::allocate: ptr = NULL is the failure sentinel
memblock_allocate(blk, numBytes) ==
  LET roundedSize == roundSize(numBytes) IN
  IF Wrap(roundedSize + blk.m_index) > blk.m_bufferSize
  THEN [ptr |-> NULL, blk |-> blk]
  ELSE [ptr |-> Wrap(blk.m_buffer + blk.m_index),
        blk |-> [blk EXCEPT !.m_index = Wrap(@ + roundedSize)]]

\* ----------------------------------------------------------- _memblockimpl
NoImpl ==
  [state |-> "none", self |-> NULL, m_alloc |-> MMappedRegion(1), m_refCount |-> 0,
   m_defaultSize |-> 0, m_head |-> NULL, m_current |-> NULL, blocks |-> <<>>,
   asked |-> 0]

\* index in im.blocks of the block whose header is at address p
BlockAt(im, p) == CHOOSE i \in DOMAIN im.blocks : im.blocks[i].self = p

CurrentBlock(im) == im.blocks[BlockAt(im, im.m_current)]

\* mutant: the new block becomes the current block but the old current block's
\* m_next is not set to it
allocateNewBlock_unlinked(im, blockSize) ==
  LET hdr == MMappedRegion_allocate(im.m_alloc, SizeofMemblock) IN
  IF ~hdr.ok
  THEN [thrown |-> TRUE, impl |-> im, storeAllocs |-> 1]
  ELSE
    LET buf == MMappedRegion_allocate(hdr.store, blockSize) IN
    IF ~buf.ok
    THEN [thrown |-> TRUE, impl |-> [im EXCEPT !.m_alloc = hdr.store], storeAllocs |-> 2]
    ELSE
      LET newBlock == memblock_new(hdr.ptr, blockSize, buf.ptr)
          linked == IF im.m_head = NULL
                    THEN [im EXCEPT !.m_head = hdr.ptr, !.m_current = hdr.ptr,
                                    !.blocks = Append(@, newBlock)]
                    ELSE [im EXCEPT !.blocks = Append(@, newBlock),
                                    !.m_current = hdr.ptr]
      IN [thrown |-> FALSE, impl |-> [linked EXCEPT !.m_alloc = buf.store], storeAllocs |-> 2]

\* mutant: the header is linked into the chain before its buffer is obtained,
\* so a store failure leaves a half-made block as the current block
allocateNewBlock_linkFirst(im, blockSize) ==
  LET hdr == MMappedRegion_allocate(im.m_alloc, SizeofMemblock) IN
  IF ~hdr.ok
  THEN [thrown |-> TRUE, impl |-> im, storeAllocs |-> 1]
  ELSE
    LET buf == MMappedRegion_allocate(hdr.store, blockSize)
        newBlock == memblock_new(hdr.ptr, IF buf.ok THEN blockSize ELSE 0, buf.ptr)
        linked == IF im.m_head = NULL
                  THEN [im EXCEPT !.m_head = hdr.ptr, !.m_current = hdr.ptr,
                                  !.blocks = Append(@, newBlock)]
                  ELSE [im EXCEPT !.blocks =
                                    Append([@ EXCEPT ![BlockAt(im, im.m_current)].m_next = hdr.ptr],
                                           newBlock),
                                  !.m_current = hdr.ptr]
    IN [thrown |-> ~buf.ok, impl |-> [linked EXCEPT !.m_alloc = buf.store], storeAllocs |-> 2]

\* _memblockimpl::allocateNewBlock; thrown = TRUE when the store threw
allocateNewBlock(im, blockSize) ==
  LET hdr == MMappedRegion_allocate(im.m_alloc, SizeofMemblock) IN
  IF ~hdr.ok
  THEN [thrown |-> TRUE, impl |-> im, storeAllocs |-> 1]
  ELSE
    LET buf == MMappedRegion_allocate(hdr.store, blockSize) IN
    IF ~buf.ok
    THEN [thrown |-> TRUE, impl |-> [im EXCEPT !.m_alloc = hdr.store], storeAllocs |-> 2]
    ELSE
      LET newBlock == memblock_new(hdr.ptr, blockSize, buf.ptr)
          linked == IF im.m_head = NULL
                    THEN [im EXCEPT !.m_head = hdr.ptr, !.m_current = hdr.ptr,
                                    !.blocks = Append(@, newBlock)]
                    ELSE [im EXCEPT !.blocks =
                                      Append([@ EXCEPT ![BlockAt(im, im.m_current)].m_next = hdr.ptr],
                                             newBlock),
                                    !.m_current = hdr.ptr]
      IN [thrown |-> FALSE, impl |-> [linked EXCEPT !.m_alloc = buf.store], storeAllocs |-> 2]

\* the size asked of allocateNewBlock when the current block is exhausted
growSize(numBytes, defaultSize) ==
  IF numBytes > defaultSize \div 2 THEN Wrap(numBytes * 2) ELSE defaultSize

\* mutant: the head block is tried before the current block
memblockimpl_allocate_headFirst(im, numBytes) ==
  LET early == memblock_allocate(im.blocks[BlockAt(im, im.m_head)], numBytes)
      first == memblock_allocate(CurrentBlock(im), numBytes) IN
  IF early.ptr # NULL
  THEN [thrown |-> FALSE, ptr |-> early.ptr, grew |-> FALSE, storeAllocs |-> 0,
        impl |-> [im EXCEPT !.blocks[BlockAt(im, im.m_head)] = early.blk]]
  ELSE IF first.ptr # NULL
  THEN [thrown |-> FALSE, ptr |-> first.ptr, grew |-> FALSE, storeAllocs |-> 0,
        impl |-> [im EXCEPT !.blocks[BlockAt(im, im.m_current)] = first.blk]]
  ELSE
    LET g == allocateNewBlock(im, growSize(numBytes, im.m_defaultSize)) IN
    IF g.thrown
    THEN [thrown |-> TRUE, ptr |-> NULL, grew |-> FALSE, storeAllocs |-> g.storeAllocs,
          impl |-> g.impl]
    ELSE
      LET retry == memblock_allocate(CurrentBlock(g.impl), numBytes) IN
      [thrown |-> FALSE, ptr |-> retry.ptr, grew |-> TRUE, storeAllocs |-> g.storeAllocs,
       impl |-> [g.impl EXCEPT !.blocks[BlockAt(g.impl, g.impl.m_current)] = retry.blk]]

\* _memblockimpl::allocate
memblockimpl_allocate(im, numBytes) ==
  LET first == memblock_allocate(CurrentBlock(im), numBytes) IN
  IF first.ptr # NULL
  THEN [thrown |-> FALSE, ptr |-> first.ptr, grew |-> FALSE, storeAllocs |-> 0,
        impl |-> [im EXCEPT !.blocks[BlockAt(im, im.m_current)] = first.blk]]
  ELSE
    LET g == allocateNewBlock(im, growSize(numBytes, im.m_defaultSize)) IN
    IF g.thrown
    THEN [thrown |-> TRUE, ptr |-> NULL, grew |-> FALSE, storeAllocs |-> g.storeAllocs,
          impl |-> g.impl]
    ELSE
      LET retry == memblock_allocate(CurrentBlock(g.impl), numBytes) IN
      [thrown |-> FALSE, ptr |-> retry.ptr, grew |-> TRUE, storeAllocs |-> g.storeAllocs,
       impl |-> [g.impl EXCEPT !.blocks[BlockAt(g.impl, g.impl.m_current)] = retry.blk]]

\* mutant: the constructor without the floor of 256 on the default size
memblockimpl_new_unclamped(self, defaultSize, allocImpl) ==
  allocateNewBlock([state |-> "live", self |-> self, m_alloc |-> allocImpl,
                    m_refCount |-> 1, m_defaultSize |-> defaultSize, m_head |-> NULL,
                    m_current |-> NULL, blocks |-> <<>>, asked |-> defaultSize],
                   defaultSize)

\* _memblockimpl::_memblockimpl run on the storage at address self; asked
\* records the constructor's defaultSize argument (history)
memblockimpl_new(self, defaultSize, allocImpl) ==
  LET clamped == IF defaultSize < MinDefaultSize THEN MinDefaultSize ELSE defaultSize
      fresh == [state |-> "live", self |-> self, m_alloc |-> allocImpl, m_refCount |-> 1,
                m_defaultSize |-> clamped, m_head |-> NULL, m_current |-> NULL,
                blocks |-> <<>>, asked |-> defaultSize]
  IN allocateNewBlock(fresh, clamped)

\* _memblockimpl::create
create(defaultSize, alloc) ==
  LET st == MMappedRegion_allocate(alloc, SizeofMemblockimpl) IN
  IF ~st.ok
  THEN [thrown |-> TRUE, impl |-> NoImpl, storeAllocs |-> 1]
  ELSE memblockimpl_new(st.ptr, defaultSize, st.store)

\* mutant: the copy constructor's increment is lost
incrementRefCount_skipped(im) == im

incrementRefCount(im) == [im EXCEPT !.m_refCount = Wrap(@ + 1)]

\* the decrement of decrementRefCount
decrementRefCount(im) == [im EXCEPT !.m_refCount = Wrap(@ + Modulus - 1)]

\* mutant: the arena is destroyed one handle too early
refCountIsZero_offByOne(im) == im.m_refCount <= 1

\* the test of decrementRefCount that leads to destroy
refCountIsZero(im) == im.m_refCount = 0

\* the block pointers ~_memblockimpl visits from p while they are blocks of im
RECURSIVE ChainFrom(_, _, _)
ChainFrom(im, p, fuel) ==
  IF fuel = 0 \/ ~(\E i \in DOMAIN im.blocks : im.blocks[i].self = p)
  THEN <<>>
  ELSE <<p>> \o ChainFrom(im, im.blocks[BlockAt(im, p)].m_next, fuel - 1)

Chain(im) == ChainFrom(im, im.m_head, Len(im.blocks))

\* mutant: only the buffers are handed back, the block headers are not
RECURSIVE DisposeCalls_buffersOnly(_, _)
DisposeCalls_buffersOnly(im, chain) ==
  IF chain = <<>> THEN <<>>
  ELSE <<im.blocks[BlockAt(im, Head(chain))].m_buffer>>
         \o DisposeCalls_buffersOnly(im, Tail(chain))

\* _memblock::dispose then m_alloc.deallocate(curr), for each block of the walk
RECURSIVE DisposeCalls(_, _)
DisposeCalls(im, chain) ==
  IF chain = <<>> THEN <<>>
  ELSE <<im.blocks[BlockAt(im, Head(chain))].m_buffer, Head(chain)>>
         \o DisposeCalls(im, Tail(chain))

\* the pointer at which the walk of ~_memblockimpl leaves the blocks of im
WalkEnd(im) ==
  IF Chain(im) = <<>> THEN im.m_head
  ELSE im.blocks[BlockAt(im, Chain(im)[Len(Chain(im))])].m_next

\* what a read of a pointer yields: an uninitialised one is NULL or garbage
ReadPointer(p) == IF p = Indeterminate THEN {NULL, Stray} ELSE {p}

\* ------------------------------------------------------------------- Alloc
\* An Alloc object is its m_impl pointer and its element type; origin records
\* the region of the constructor call its chain of copies and rebinds began with
Handle(implPtr, sizeofT, origin) ==
  [m_impl |-> implPtr, sizeofT |-> sizeofT, origin |-> origin]

\* the live Alloc objects (a bag: two copies of a handle are two objects)
LiveHandles == BagToSet(handles)

NumLive == BagCardinality(handles)

AddHandle(h) == handles (+) SetToBag({h})
RemoveHandle(h) == handles (-) SetToBag({h})

\* the region whose arena state is at address p
ImplOf(p) == CHOOSE r \in Regions : impl[r].state # "none" /\ impl[r].self = p

\* _memblockimpl::assign
assign(src) == src.m_impl

\* mutant: the stateless-allocator idiom, every allocator equals every other
equals_always(h, implPtr) == TRUE

\* Alloc::equals, operator== and operator!=
equals(h, implPtr) == implPtr = h.m_impl
OperatorEq(t1, t2) == equals(t2, t1.m_impl)
OperatorNeq(t1, t2) == ~equals(t2, t1.m_impl)

\* the outcome of the latest Alloc::allocate call (history)
Result(r, numBytes, ptr, status, grew, storeAllocs) ==
  [impl |-> r, numBytes |-> numBytes, ptr |-> ptr, status |-> status, grew |-> grew,
   storeAllocs |-> storeAllocs]

NoResult == Result(1, 0, NULL, "none", FALSE, 0)

\* ----------------------------------------------------------------- actions

\* Alloc::Alloc(defaultSize, allocImpl): a fresh arena on region r.  The
\* constructor is declared throw(): a store failure ends the program.
Construct(r, defaultSize, sizeofT) ==
  /\ ~crashed
  /\ NumLive < MaxHandles
  /\ impl[r].state = "none"
  /\ LET c == create(defaultSize, MMappedRegion(r)) IN
     IF c.thrown
     THEN /\ crashed' = TRUE
          /\ UNCHANGED <<impl, handles>>
     ELSE /\ impl' = [impl EXCEPT ![r] = c.impl]
          /\ handles' = AddHandle(Handle(c.impl.self, sizeofT, r))
          /\ UNCHANGED crashed
  /\ UNCHANGED <<returned, released, via, teardowns, last, numAllocs, thr, ext>>

\* Alloc::Alloc(const Alloc& src)
Copy(src) ==
  /\ ~crashed
  /\ src \in LiveHandles
  /\ NumLive < MaxHandles
  /\ handles' = AddHandle(Handle(src.m_impl, src.sizeofT, src.origin))
  /\ impl' = [impl EXCEPT ![ImplOf(src.m_impl)] = incrementRefCount(@)]
  /\ UNCHANGED <<crashed, returned, released, via, teardowns, last, numAllocs, thr, ext>>

\* template <class U> Alloc::Alloc(const Alloc<U,AllocatorImpl>& src)
Rebind(src, sizeofT) ==
  /\ ~crashed
  /\ src \in LiveHandles
  /\ NumLive < MaxHandles
  /\ sizeofT # src.sizeofT
  /\ handles' = AddHandle(Handle(assign(src), sizeofT, src.origin))
  /\ impl' = [impl EXCEPT ![ImplOf(assign(src))] = incrementRefCount(@)]
  /\ UNCHANGED <<crashed, returned, released, via, teardowns, last, numAllocs, thr, ext>>

\* what following a garbage block pointer can do before the program dies: fault
\* at once, or dispose of the garbage "block" (two more deallocate calls)
StrayCalls == {<<>>, <<Stray, Stray>>}

\* the store object ~_memblockimpl makes its deallocate calls through: the
\* member m_alloc of the arena state being destructed
dtor_storeUsed(calls) == [i \in DOMAIN calls |-> "m_alloc"]

\* mutant: destroy hands the arena state's storage back through the member
\* m_alloc of the arena state it has just destructed
destroy_storeUsed_member == "m_alloc"

\* the store object destroy hands the arena state's own storage back through:
\* allocImpl, the copy of m_alloc it took before running the destructor
destroy_storeUsed == "allocImpl"

\* _memblockimpl::destroy of the arena of region r, whose walk of the chain
\* ends reading the pointer `next`
Teardown(r, im, next) ==
  LET calls == DisposeCalls(im, Chain(im)) IN
  /\ teardowns' = [teardowns EXCEPT ![r] = @ + 1]
  /\ impl' = [impl EXCEPT ![r] = [im EXCEPT !.state = "destroyed"]]
  /\ IF next = NULL
     THEN /\ released' = [released EXCEPT ![r] = @ \o calls \o <<im.self>>]
          /\ via' = [via EXCEPT ![r] = @ \o dtor_storeUsed(calls) \o <<destroy_storeUsed>>]
          /\ UNCHANGED crashed
     ELSE /\ \E stray \in StrayCalls :
               /\ released' = [released EXCEPT ![r] = @ \o calls \o stray]
               /\ via' = [via EXCEPT ![r] = @ \o dtor_storeUsed(calls \o stray)]
          /\ crashed' = TRUE

\* Alloc::~Alloc
DestroyHandle(h) ==
  /\ ~crashed
  /\ h \in LiveHandles
  /\ LET r == ImplOf(h.m_impl)
         im == decrementRefCount(impl[r])
     IN /\ handles' = RemoveHandle(h)
        /\ IF refCountIsZero(im)
           THEN \E next \in ReadPointer(WalkEnd(im)) : Teardown(r, im, next)
           ELSE /\ impl' = [impl EXCEPT ![r] = im]
                /\ UNCHANGED <<crashed, released, via, teardowns>>
  /\ UNCHANGED <<returned, last, numAllocs, thr, ext>>

\* Alloc::allocate(num), while fewer than limit calls have been made
AllocateWithin(h, num, limit) ==
  /\ ~crashed
  /\ h \in LiveHandles
  /\ numAllocs < limit
  /\ LET r == ImplOf(h.m_impl)
         numBytes == Wrap(num * h.sizeofT)
         a == memblockimpl_allocate(impl[r], numBytes)
     IN /\ impl' = [impl EXCEPT ![r] = a.impl]
        /\ last' = Result(r, numBytes, a.ptr,
                          IF a.thrown THEN "throw" ELSE IF a.ptr = NULL THEN "null" ELSE "ok",
                          a.grew, a.storeAllocs)
        /\ returned' = IF a.thrown \/ a.ptr = NULL THEN returned
                       ELSE Append(returned, [impl |-> r, ptr |-> a.ptr, numBytes |-> numBytes,
                                              origin |-> h.origin])
  /\ numAllocs' = numAllocs + 1
  /\ UNCHANGED <<handles, crashed, released, via, teardowns, thr, ext>>

Allocate(h, num) == AllocateWithin(h, num, MaxAllocs)

\* Alloc::deallocate(p, num), p a pointer this arena returned
Deallocate(h, k) ==
  /\ ~crashed
  /\ h \in LiveHandles
  /\ k \in DOMAIN returned
  /\ returned[k].impl = ImplOf(h.m_impl)
  /\ UNCHANGED <<impl, handles, crashed, returned, released, via, teardowns, last, numAllocs, thr, ext>>

\* the handles an action may name
HandleValues ==
  {Handle(RegionAddr(r), t, r) : r \in Regions, t \in ElemSizes}

\* the threads of a program that shares an arena between two threads
Threads == {1, 2}

\* Where each thread is in a copy constructor or a destructor whose ++m_refCount
\* or --m_refCount is a load followed by a store: pc is "idle", "inc" (loaded,
\* about to store the sum) or "dec"; reg is the value loaded, ptr the m_impl
\* and sizeofT the element type of the handle at hand.  stale records that
\* some store wrote a value computed from a count that had changed since its
\* load (history).
NoThreads ==
  [pc |-> [t \in Threads |-> "idle"], reg |-> [t \in Threads |-> 0],
   ptr |-> [t \in Threads |-> NULL], sizeofT |-> [t \in Threads |-> 0],
   stale |-> FALSE]

\* The counters the _memblockimpl of arenaallocimpl.h adds to the arena state,
\* as its constructor leaves them; notified counts the deallocate calls made
\* (history).
NoStats ==
  [m_numAllocate |-> 0, m_numDeallocate |-> 0, m_numBytesAllocated |-> 0, notified |-> 0]

Init ==
  /\ thr = NoThreads
  /\ ext = [r \in Regions |-> NoStats]
  /\ crashed = FALSE
  /\ returned = <<>>
  /\ released = [r \in Regions |-> <<>>]
  /\ via = [r \in Regions |-> <<>>]
  /\ teardowns = [r \in Regions |-> 0]
  /\ numAllocs = 0
  /\ last = NoResult
  /\ \E d \in DefaultSizes, t \in ElemSizes :
       LET c == create(d, MMappedRegion(1)) IN
       /\ impl = [r \in Regions |-> IF r = 1 THEN c.impl ELSE NoImpl]
       /\ handles = SetToBag({Handle(c.impl.self, t, 1)})

Next ==
  \/ \E r \in Regions, d \in DefaultSizes, t \in ElemSizes : Construct(r, d, t)
  \/ \E src \in HandleValues : Copy(src)
  \/ \E src \in HandleValues, t \in ElemSizes : Rebind(src, t)
  \/ \E h \in HandleValues : DestroyHandle(h)
  \/ \E h \in HandleValues, num \in Counts : Allocate(h, num)
  \/ \E h \in HandleValues, k \in 1 .. MaxAllocs : Deallocate(h, k)

Spec == Init /\ [][Next]_vars

\* ---------------------------------------------------------------------------
\* One arena followed through one more request than Spec makes, with element
\* counts that fit the region three blocks deep: a first request that fills
\* the first block, and later ones that make the chain grow twice.
ChainCounts == {10, 16, 21, 33, 42, 300}
ChainAllocs == MaxAllocs + 1

AllocateChain(h, num) == AllocateWithin(h, num, ChainAllocs)

NextChain ==
  \/ \E src \in HandleValues : Copy(src)
  \/ \E src \in HandleValues, t \in ElemSizes : Rebind(src, t)
  \/ \E h \in HandleValues : DestroyHandle(h)
  \/ \E h \in HandleValues, num \in ChainCounts : AllocateChain(h, num)
  \/ \E h \in HandleValues, k \in 1 .. ChainAllocs : Deallocate(h, k)

SpecChain == Init /\ [][NextChain]_vars

\* ---------------------------------------------------------------------------
\* Two allocators constructed from the same MMappedRegion object r1.  The
\* constructor takes the store by value and the arena state copies it again,
\* so r1 itself never advances: the second constructor call is handed the
\* address the first was handed, and builds its arena state and first block
\* in the storage that holds those of the first.  impl[1] is the object in
\* that storage; origin 2 marks the handles of the second constructor call.
ConstructSameStore(defaultSize, sizeofT) ==
  /\ ~crashed
  /\ NumLive < MaxHandles
  /\ impl[1].state = "live"
  /\ \A h \in LiveHandles : h.origin = 1
  /\ LET c == create(defaultSize, MMappedRegion(1)) IN
     IF c.thrown
     THEN /\ crashed' = TRUE
          /\ UNCHANGED <<impl, handles>>
     ELSE /\ impl' = [impl EXCEPT ![1] = c.impl]
          /\ handles' = AddHandle(Handle(c.impl.self, sizeofT, 2))
          /\ UNCHANGED crashed
  /\ UNCHANGED <<returned, released, via, teardowns, last, numAllocs, thr, ext>>

\* the arena state h points to has not been destroyed
ArenaIsLive(h) == h \in LiveHandles /\ impl[ImplOf(h.m_impl)].state = "live"

\* any member function called on a handle whose arena state was destroyed
\* through another handle reads freed storage
UseAfterFree(h) ==
  /\ ~crashed
  /\ h \in LiveHandles
  /\ impl[ImplOf(h.m_impl)].state = "destroyed"
  /\ crashed' = TRUE
  /\ UNCHANGED <<impl, handles, returned, released, via, teardowns, last, numAllocs, thr, ext>>

\* dst = src between two Alloc objects of one element type.  Alloc declares no
\* operator=, so the implicitly defined one copies the member m_impl and
\* calls neither decrementRefCount on the old arena state nor
\* incrementRefCount on the new one.
CopyAssign(dst, src) ==
  /\ ~crashed
  /\ dst \in LiveHandles /\ src \in LiveHandles
  /\ dst.sizeofT = src.sizeofT
  /\ handles' = (handles (-) SetToBag({dst}))
                   (+) SetToBag({Handle(src.m_impl, dst.sizeofT, src.origin)})
  /\ UNCHANGED <<impl, crashed, returned, released, via, teardowns, last, numAllocs, thr, ext>>

\* a program that also assigns handles to one another
NextAssign ==
  \/ \E r \in Regions, d \in DefaultSizes, t \in ElemSizes : Construct(r, d, t)
  \/ \E src \in HandleValues : ArenaIsLive(src) /\ Copy(src)
  \/ \E h \in HandleValues : ArenaIsLive(h) /\ DestroyHandle(h)
  \/ \E dst, src \in HandleValues : CopyAssign(dst, src)
  \/ \E h \in HandleValues : UseAfterFree(h)

SpecAssign == Init /\ [][NextAssign]_vars

SameStoreHandles == {Handle(RegionAddr(1), t, o) : t \in ElemSizes, o \in Regions}

\* element counts whose sizes do not wrap
SameStoreCounts == {31, 300}

NextSameStore ==
  \/ \E d \in DefaultSizes, t \in ElemSizes : ConstructSameStore(d, t)
  \/ \E src \in SameStoreHandles : ArenaIsLive(src) /\ Copy(src)
  \/ \E src \in SameStoreHandles, t \in ElemSizes : ArenaIsLive(src) /\ Rebind(src, t)
  \/ \E h \in SameStoreHandles : ArenaIsLive(h) /\ DestroyHandle(h)
  \/ \E h \in SameStoreHandles, num \in SameStoreCounts : ArenaIsLive(h) /\ Allocate(h, num)
  \/ \E h \in SameStoreHandles, k \in 1 .. MaxAllocs : ArenaIsLive(h) /\ Deallocate(h, k)
  \/ \E h \in SameStoreHandles : UseAfterFree(h)

SpecSameStore == Init /\ [][NextSameStore]_vars

\* ---------------------------------------------------------------------------
\* The arena state of arenaallocimpl.h: that of arenaalloc.h (impl) with the
\* counters m_numAllocate, m_numDeallocate and m_numBytesAllocated (ext).

\* mutant: the extended arena reserves one word more per request for its
\* bookkeeping
ext_allocate_padded(im, st, numBytes) ==
  LET a == memblockimpl_allocate(im, Wrap(numBytes + AlignUnit)) IN
  [a |-> a,
   stats |-> IF a.thrown THEN st
             ELSE [st EXCEPT !.m_numAllocate = Wrap(@ + 1),
                             !.m_numBytesAllocated = Wrap(@ + numBytes)]]

\* _memblockimpl::allocate of arenaallocimpl.h: the allocation of arenaalloc.h,
\* then the two counters, unless the store threw
ext_allocate(im, st, numBytes) ==
  LET a == memblockimpl_allocate(im, numBytes) IN
  [a |-> a,
   stats |-> IF a.thrown THEN st
             ELSE [st EXCEPT !.m_numAllocate = Wrap(@ + 1),
                             !.m_numBytesAllocated = Wrap(@ + numBytes)]]

\* _memblockimpl::deallocate of arenaallocimpl.h
ext_deallocate(st) == [st EXCEPT !.m_numDeallocate = Wrap(@ + 1)]

\* allocate(num) through a handle of the extended arena
ExtAllocate(h, num) ==
  /\ ~crashed
  /\ h \in LiveHandles
  /\ numAllocs < MaxAllocs
  /\ LET r == ImplOf(h.m_impl)
         numBytes == Wrap(num * h.sizeofT)
         e == ext_allocate(impl[r], ext[r], numBytes)
         a == e.a
     IN /\ impl' = [impl EXCEPT ![r] = a.impl]
        /\ ext' = [ext EXCEPT ![r] = e.stats]
        /\ last' = Result(r, numBytes, a.ptr,
                          IF a.thrown THEN "throw" ELSE IF a.ptr = NULL THEN "null" ELSE "ok",
                          a.grew, a.storeAllocs)
        /\ returned' = IF a.thrown \/ a.ptr = NULL THEN returned
                       ELSE Append(returned, [impl |-> r, ptr |-> a.ptr, numBytes |-> numBytes,
                                              origin |-> h.origin])
  /\ numAllocs' = numAllocs + 1
  /\ UNCHANGED <<handles, crashed, released, via, teardowns, thr>>

\* the pointers handed to deallocate: null, a pointer the arena never returned
\* and the pointers it returned
ExtPointers == {NULL, Stray} \cup {returned[k].ptr : k \in DOMAIN returned}

\* deallocate(ptr) through a handle of the extended arena, while fewer than
\* MaxAllocs notifications have been made
ExtDeallocate(h, ptr) ==
  /\ ~crashed
  /\ h \in LiveHandles
  /\ ptr \in ExtPointers
  /\ LET r == ImplOf(h.m_impl) IN
     /\ ext[r].notified < MaxAllocs
     /\ ext' = [ext EXCEPT ![r] = [ext_deallocate(@) EXCEPT !.notified = @ + 1]]
  /\ UNCHANGED <<impl, handles, crashed, returned, released, via, teardowns, last, numAllocs, thr>>

NextExt ==
  \/ \E src \in HandleValues : Copy(src)
  \/ \E src \in HandleValues, t \in ElemSizes : Rebind(src, t)
  \/ \E h \in HandleValues : DestroyHandle(h)
  \/ \E h \in HandleValues, num \in Counts : ExtAllocate(h, num)
  \/ \E h \in HandleValues, ptr \in ExtPointers : ExtDeallocate(h, ptr)

SpecExt == Init /\ [][NextExt]_vars

\* ---------------------------------------------------------------------------
\* The basic arena state (region Basic) and the extended arena state (region
\* Extended, its own store) run side by side: every operation is applied to
\* both.

Basic == 1
Extended == 2

\* _memblockimpl::create of arenaallocimpl.h: the arena state holds three
\* counters where the basic one holds m_num
ext_create(defaultSize, alloc) ==
  LET st == MMappedRegion_allocate(alloc, SizeofMemblockimplExt) IN
  IF ~st.ok
  THEN [thrown |-> TRUE, impl |-> NoImpl, storeAllocs |-> 1]
  ELSE memblockimpl_new(st.ptr, defaultSize, st.store)

\* the handle of element size sizeofT on the arena of region r
PairHandle(r, sizeofT) == Handle(impl[r].self, sizeofT, r)

\* both variants have a live handle of element size sizeofT
PairLive(sizeofT) ==
  /\ ~crashed
  /\ impl[Basic].state = "live" /\ impl[Extended].state = "live"
  /\ PairHandle(Basic, sizeofT) \in LiveHandles
  /\ PairHandle(Extended, sizeofT) \in LiveHandles

\* the extended arena is constructed with the arguments the basic one was
PairConstruct ==
  /\ ~crashed
  /\ impl[Basic].state = "live" /\ impl[Extended].state = "none"
  /\ LET c == ext_create(impl[Basic].asked, MMappedRegion(Extended)) IN
     /\ ~c.thrown
     /\ impl' = [impl EXCEPT ![Extended] = c.impl]
     /\ handles' = handles (+)
          [h \in {Handle(c.impl.self, g.sizeofT, Extended) : g \in LiveHandles} |-> 1]
  /\ UNCHANGED <<crashed, returned, released, via, teardowns, last, numAllocs, thr, ext>>

\* Alloc(const Alloc&) on both
PairCopy(sizeofT) ==
  /\ PairLive(sizeofT)
  /\ NumLive < 2 * MaxHandles
  /\ handles' = (handles (+) SetToBag({PairHandle(Basic, sizeofT)}))
                   (+) SetToBag({PairHandle(Extended, sizeofT)})
  /\ impl' = [r \in Regions |-> incrementRefCount(impl[r])]
  /\ UNCHANGED <<crashed, returned, released, via, teardowns, last, numAllocs, thr, ext>>

\* what the teardown of im hands back when its walk ends reading `next`
PairTeardownCalls(im, next, stray) ==
  DisposeCalls(im, Chain(im)) \o (IF next = NULL THEN <<im.self>> ELSE stray)

PairTeardownVia(im, next, stray) ==
  IF next = NULL
  THEN dtor_storeUsed(DisposeCalls(im, Chain(im))) \o <<destroy_storeUsed>>
  ELSE dtor_storeUsed(DisposeCalls(im, Chain(im)) \o stray)

\* ~Alloc on both
PairDestroy(sizeofT) ==
  /\ PairLive(sizeofT)
  /\ handles' = (handles (-) SetToBag({PairHandle(Basic, sizeofT)}))
                   (-) SetToBag({PairHandle(Extended, sizeofT)})
  /\ LET dec == [r \in Regions |-> decrementRefCount(impl[r])] IN
     \E next \in [Regions -> {NULL, Stray}], stray \in StrayCalls :
       /\ \A r \in Regions : next[r] \in ReadPointer(WalkEnd(dec[r]))
       /\ impl' = [r \in Regions |->
                     IF refCountIsZero(dec[r]) THEN [dec[r] EXCEPT !.state = "destroyed"]
                     ELSE dec[r]]
       /\ teardowns' = [r \in Regions |->
                          IF refCountIsZero(dec[r]) THEN teardowns[r] + 1 ELSE teardowns[r]]
       /\ released' = [r \in Regions |->
                         IF refCountIsZero(dec[r])
                         THEN released[r] \o PairTeardownCalls(dec[r], next[r], stray)
                         ELSE released[r]]
       /\ via' = [r \in Regions |->
                    IF refCountIsZero(dec[r])
                    THEN via[r] \o PairTeardownVia(dec[r], next[r], stray)
                    ELSE via[r]]
       /\ crashed' = \E r \in Regions : refCountIsZero(dec[r]) /\ next[r] # NULL
  /\ UNCHANGED <<returned, last, numAllocs, thr, ext>>

\* allocate(num) on both; last holds the outcome of the basic variant
PairAllocate(sizeofT, num) ==
  /\ PairLive(sizeofT)
  /\ numAllocs < MaxAllocs
  /\ LET numBytes == Wrap(num * sizeofT)
         a == memblockimpl_allocate(impl[Basic], numBytes)
         e == ext_allocate(impl[Extended], ext[Extended], numBytes)
         got(r, x) == IF x.thrown \/ x.ptr = NULL THEN <<>>
                      ELSE <<[impl |-> r, ptr |-> x.ptr, numBytes |-> numBytes, origin |-> r]>>
     IN /\ impl' = [impl EXCEPT ![Basic] = a.impl, ![Extended] = e.a.impl]
        /\ ext' = [ext EXCEPT ![Extended] = e.stats]
        /\ last' = Result(Basic, numBytes, a.ptr,
                          IF a.thrown THEN "throw" ELSE IF a.ptr = NULL THEN "null" ELSE "ok",
                          a.grew, a.storeAllocs)
        /\ returned' = returned \o got(Basic, a) \o got(Extended, e.a)
  /\ numAllocs' = numAllocs + 1
  /\ UNCHANGED <<handles, crashed, released, via, teardowns, thr>>

\* deallocate on both: Alloc::deallocate of the basic variant does nothing,
\* the extended arena state counts the notification
PairDeallocate(sizeofT) ==
  /\ PairLive(sizeofT)
  /\ returned # <<>>
  /\ ext[Extended].notified < MaxAllocs
  /\ ext' = [ext EXCEPT ![Extended] = [ext_deallocate(@) EXCEPT !.notified = @ + 1]]
  /\ UNCHANGED <<impl, handles, crashed, returned, released, via, teardowns, last, numAllocs, thr>>

\* element counts whose sizes do not wrap
PairCounts == {31, 39, 300}

NextPair ==
  \/ PairConstruct
  \/ \E t \in ElemSizes : PairCopy(t)
  \/ \E t \in ElemSizes : PairDestroy(t)
  \/ \E t \in ElemSizes, num \in PairCounts : PairAllocate(t, num)
  \/ \E t \in ElemSizes : PairDeallocate(t)

SpecPair == Init /\ [][NextPair]_vars

\* ---------------------------------------------------------------------------
\* Two threads that copy and destroy handles of one arena with no lock.
\* ++m_refCount and --m_refCount are not atomic: each is a load of the count
\* (Begin...) and a store of the loaded value plus or minus one (End...).

\* mutant: the store of the increment is lost in every copy
incrementRefCount_store_skipped(im, reg) == im

\* the store of ++m_refCount, reg being the value loaded
incrementRefCount_store(im, reg) == [im EXCEPT !.m_refCount = Wrap(reg + 1)]

\* the store of --m_refCount, reg being the value loaded
decrementRefCount_store(im, reg) == [im EXCEPT !.m_refCount = Wrap(reg + Modulus - 1)]

ThreadIdle(t) ==
  [thr EXCEPT !.pc[t] = "idle", !.reg[t] = 0, !.ptr[t] = NULL, !.sizeofT[t] = 0]

\* Alloc::Alloc(const Alloc& src) up to the load of ++m_refCount
BeginCopy(t, src) ==
  /\ ~crashed
  /\ thr.pc[t] = "idle"
  /\ ArenaIsLive(src)
  /\ NumLive + Cardinality({u \in Threads : thr.pc[u] = "inc"}) < MaxHandles
  /\ impl[ImplOf(src.m_impl)].m_refCount < MaxHandles
  /\ thr' = [thr EXCEPT !.pc[t] = "inc", !.reg[t] = impl[ImplOf(src.m_impl)].m_refCount,
                        !.ptr[t] = src.m_impl, !.sizeofT[t] = src.sizeofT]
  /\ UNCHANGED <<impl, handles, crashed, returned, released, via, teardowns, last, numAllocs, ext>>

\* the store of ++m_refCount; the copy is constructed
EndCopy(t) ==
  /\ ~crashed
  /\ thr.pc[t] = "inc"
  /\ LET r == ImplOf(thr.ptr[t]) IN
     /\ impl[r].state = "live"
     /\ impl' = [impl EXCEPT ![r] = incrementRefCount_store(@, thr.reg[t])]
     /\ handles' = AddHandle(Handle(thr.ptr[t], thr.sizeofT[t], r))
     /\ thr' = [ThreadIdle(t) EXCEPT !.stale = @ \/ impl[r].m_refCount # thr.reg[t]]
  /\ UNCHANGED <<crashed, returned, released, via, teardowns, last, numAllocs, ext>>

\* Alloc::~Alloc up to the load of --m_refCount; the handle is gone
BeginDestroy(t, h) ==
  /\ ~crashed
  /\ thr.pc[t] = "idle"
  /\ ArenaIsLive(h)
  /\ handles' = RemoveHandle(h)
  /\ thr' = [thr EXCEPT !.pc[t] = "dec", !.reg[t] = impl[ImplOf(h.m_impl)].m_refCount,
                        !.ptr[t] = h.m_impl, !.sizeofT[t] = h.sizeofT]
  /\ UNCHANGED <<impl, crashed, returned, released, via, teardowns, last, numAllocs, ext>>

\* the store of --m_refCount and the test that leads to destroy
EndDestroy(t) ==
  /\ ~crashed
  /\ thr.pc[t] = "dec"
  /\ LET r == ImplOf(thr.ptr[t])
         im == decrementRefCount_store(impl[r], thr.reg[t])
     IN /\ impl[r].state = "live"
        /\ thr' = [ThreadIdle(t) EXCEPT !.stale = @ \/ impl[r].m_refCount # thr.reg[t]]
        /\ IF refCountIsZero(im)
           THEN \E next \in ReadPointer(WalkEnd(im)) : Teardown(r, im, next)
           ELSE /\ impl' = [impl EXCEPT ![r] = im]
                /\ UNCHANGED <<crashed, released, via, teardowns>>
  /\ UNCHANGED <<handles, returned, last, numAllocs, ext>>

\* a store to the count of an arena state another thread has destroyed
StoreToFreed(t) ==
  /\ ~crashed
  /\ thr.pc[t] # "idle"
  /\ impl[ImplOf(thr.ptr[t])].state = "destroyed"
  /\ crashed' = TRUE
  /\ UNCHANGED <<impl, handles, returned, released, via, teardowns, last, numAllocs, thr, ext>>

NextThreads ==
  \/ \E t \in Threads, src \in HandleValues : BeginCopy(t, src)
  \/ \E t \in Threads : EndCopy(t)
  \/ \E t \in Threads, h \in HandleValues : BeginDestroy(t, h)
  \/ \E t \in Threads : EndDestroy(t)
  \/ \E t \in Threads : StoreToFreed(t)
  \/ \E h \in HandleValues : UseAfterFree(h)

SpecThreads == Init /\ [][NextThreads]_vars

\* ------------------------------------------------------------ properties

\* the arena states constructed so far, and those not yet torn down
Constructed == {r \in Regions : impl[r].state # "none"}
LiveImpls == {r \in Regions : impl[r].state = "live"}

\* the number of live handles whose m_impl is the arena state of region r
HandlesOn(r) ==
  BagCardinality([h \in {g \in LiveHandles : g.m_impl = impl[r].self} |-> CopiesIn(h, handles)])

\* the bytes [ptr, ptr + numBytes) of a returned region, as unbounded integers
RegionEnd(a) == a.ptr + a.numBytes
Overlap(a, b) == a.ptr < RegionEnd(b) /\ b.ptr < RegionEnd(a)

RECURSIVE SumIndex(_, _)
SumIndex(blocks, k) == IF k = 0 THEN 0 ELSE blocks[k].m_index + SumIndex(blocks, k - 1)

\* bytes in use of an arena: the sum of its blocks' offsets
BytesInUse(im) == SumIndex(im.blocks, Len(im.blocks))

\* C1: the regions [ptr, ptr+n), n > 0, returned by allocate calls made through
\* the handles of one arena state never overlap pairwise.  (Stated as the claim
\* states it; the code breaks it when roundSize wraps.)
C1_RegionsDisjoint ==
  \A i, j \in DOMAIN returned :
    (i < j /\ returned[i].impl = returned[j].impl
       /\ returned[i].numBytes > 0 /\ returned[j].numBytes > 0)
      => ~Overlap(returned[i], returned[j])

\* C2: an arena state is torn down exactly once, when its last live handle is
\* destroyed and not before: it is live exactly while some live handle
\* references it, its refcount is then the number of those handles, and its
\* teardown has run once if it is destroyed and never otherwise.
C2_TeardownOnceAtLastHandle ==
  \A r \in Regions :
    /\ (impl[r].state = "live") <=> (HandlesOn(r) > 0)
    /\ impl[r].state = "live" => impl[r].m_refCount = HandlesOn(r)
    /\ teardowns[r] = IF impl[r].state = "destroyed" THEN 1 ELSE 0
    /\ \A h \in LiveHandles : \E q \in LiveImpls : impl[q].self = h.m_impl

\* C2 witness: one arena has been torn down (its handles are gone) while the
\* other is shared by three handles made by copy and rebind
C2_Witness ==
  \E r, q \in Regions :
    /\ impl[r].state = "destroyed" /\ teardowns[r] = 1
    /\ impl[q].state = "live" /\ impl[q].m_refCount = 3
    /\ \E h, g \in LiveHandles : h.sizeofT # g.sizeofT

\* C3: between construction and teardown the bytes in use of an arena never
\* decrease in any step (deallocate included).  (Stated as the claim states it;
\* the code breaks it when m_index + roundedSize wraps.)
C3_BytesInUseMonotone ==
  [][\A r \in Regions :
       impl[r].state = "live" => BytesInUse(impl'[r]) >= BytesInUse(impl[r])]_vars

\* C4: two live handles compare equal (operator== true, operator!= false)
\* exactly when they descend, by copies and rebinds, from the same constructor
\* call, whatever their element types.
C4_EqualIffSameArena ==
  \A h, g \in LiveHandles :
    /\ OperatorEq(h, g) <=> (h.origin = g.origin)
    /\ OperatorNeq(h, g) <=> (h.origin # g.origin)

\* C4 witness: two equal handles of different element types and a third,
\* independently constructed one that differs from both
C4_Witness ==
  \E h, g, k \in LiveHandles :
    /\ h.sizeofT # g.sizeofT /\ OperatorEq(h, g) /\ ~OperatorNeq(h, g)
    /\ OperatorNeq(h, k) /\ ~OperatorEq(g, k)

\* C5: the top-level allocate never returns the failure sentinel: when the
\* store supplied the new block the retry succeeds, so allocate fails only by
\* the store's exception.  (Stated as the claim states it; the code breaks it
\* when numBytes*2 wraps.)
C5_NeverNull == last.status # "null"

\* the number of blocks of the chain of an arena state
NumBlocks(im) == Len(Chain(im))

ArenaView(im) ==
  [state |-> im.state, self |-> im.self, m_refCount |-> im.m_refCount,
   m_defaultSize |-> im.m_defaultSize, m_head |-> im.m_head,
   m_current |-> im.m_current, blocks |-> im.blocks]

\* roundUp(n, alignment unit), as an unbounded integer
RoundUp(n) == ((n + AlignUnit - 1) \div AlignUnit) * AlignUnit

\* n bytes fit in the current block of im
FitsCurrent(im, n) == CurrentBlock(im).m_index + RoundUp(n) <= CurrentBlock(im).m_bufferSize

C8_GrowthSize ==
  last.grew =>
    LET im == impl[last.impl]
        n == last.numBytes
        d == im.m_defaultSize
        asked == CurrentBlock(im).requested
    IN IF n > d \div 2
       THEN asked = 2 * n /\ asked = (IF 2 * n > d THEN 2 * n ELSE d)
       ELSE asked = d

\* C9: the address a zero-byte allocate returns is the address of no other
\* allocate of that arena, earlier or later; stated for the other requests of
\* 1 .. RegionBytes bytes, whose sizes do not wrap.  (Stated as the claim states
\* it; the code returns the bump position without moving it.)
C9_ZeroByteNoAlias ==
  \A i, j \in DOMAIN returned :
    (i # j /\ returned[i].impl = returned[j].impl /\ returned[i].numBytes = 0
       /\ returned[j].numBytes \in 1 .. RegionBytes)
      => returned[i].ptr # returned[j].ptr

\* the handle that a step adding one handle adds, or removing one removes
Added == CHOOSE h \in BagToSet(handles') : CopiesIn(h, handles') = CopiesIn(h, handles) + 1
Removed == CHOOSE h \in LiveHandles : CopiesIn(h, handles') = CopiesIn(h, handles) - 1

\* C10: a step that adds a handle to an arena that already has one (copy,
\* rebind) or removes a handle that is not the arena's last changes that
\* arena's refcount by +1 or -1 and nothing else: the new handle has the m_impl
\* of a handle that was live, every other field of every arena state (chain,
\* current block, offsets, default size, embedded store) is unchanged, no store
\* deallocate is made, nothing is returned, and every live handle still
\* references a live arena state.
C10_SharingChangesOnlyRefCount ==
  [][/\ (BagCardinality(handles') > BagCardinality(handles)
           /\ \E g \in LiveHandles : g.m_impl = Added.m_impl) =>
          /\ \E g \in LiveHandles : g.m_impl = Added.m_impl /\ g.origin = Added.origin
          /\ impl' = [impl EXCEPT ![ImplOf(Added.m_impl)].m_refCount = @ + 1]
          /\ UNCHANGED <<returned, released, teardowns, last, numAllocs, crashed>>
     /\ (BagCardinality(handles') < BagCardinality(handles)
           /\ \E g \in BagToSet(handles') : g.m_impl = Removed.m_impl) =>
          /\ impl' = [impl EXCEPT ![ImplOf(Removed.m_impl)].m_refCount = @ - 1]
          /\ UNCHANGED <<returned, released, teardowns, last, numAllocs, crashed>>
     /\ \A h \in BagToSet(handles') : \E r \in Regions :
          impl'[r].state = "live" /\ impl'[r].self = h.m_impl]_vars

\* C10 witness: an arena that has grown and served two requests is shared by
\* handles of two element types, made by copy and rebind
C10_Witness ==
  \E r \in LiveImpls :
    /\ impl[r].m_refCount = 2 /\ Len(impl[r].blocks) = 2 /\ Len(returned) = 2
    /\ \E h, g \in LiveHandles : h.sizeofT # g.sizeofT /\ h.m_impl = g.m_impl

\* an arena state as its constructor leaves it: refcount 1, default size the
\* larger of the argument and 256, and a chain of one block, head and current,
\* asked of the store with that default size, of that capacity rounded up to
\* the alignment unit, with offset 0 and nothing after it
FreshArena(im) ==
  /\ im.state = "live" /\ im.m_refCount = 1
  /\ im.m_defaultSize = (IF im.asked > MinDefaultSize THEN im.asked ELSE MinDefaultSize)
  /\ Len(im.blocks) = 1
  /\ im.m_head = im.blocks[1].self /\ im.m_current = im.m_head
  /\ im.blocks[1].requested = im.m_defaultSize
  /\ im.blocks[1].m_bufferSize = RoundUp(im.m_defaultSize)
  /\ im.blocks[1].m_index = 0
  /\ Chain(im) = <<im.m_head>>

\* C11: a constructor call other than copy or rebind (the first one, and every
\* later one) that returns makes a new arena state, at an address no handle
\* referenced, which is a FreshArena, and one handle that references it.
C11_FreshConstruction ==
  /\ \A r \in Constructed : FreshArena(impl[r]) /\ HandlesOn(r) = 1
  /\ [][\A r \in Regions :
          (impl[r].state = "none" /\ impl'[r].state # "none") =>
            /\ FreshArena(impl'[r])
            /\ \A h \in LiveHandles : h.m_impl # impl'[r].self
            /\ BagCardinality(handles') = BagCardinality(handles) + 1
            /\ Added.m_impl = impl'[r].self /\ Added.origin = r
            /\ \A q \in Regions \ {r} : impl'[q] = impl[q]]_vars

\* C11 witness: a second arena constructed with defaultSize 100 (clamped to
\* 256) beside the first, which has served a request by then
C11_Witness ==
  /\ impl[2].state = "live" /\ impl[2].asked = 100 /\ impl[2].m_defaultSize = 256
  /\ FreshArena(impl[2]) /\ HandlesOn(2) = 1
  /\ Len(returned) = 1 /\ returned[1].impl = 1

\* the offset of address p from the start of the buffer of block b (size_t)
OffsetIn(b, p) == Wrap(p + Modulus - b.m_buffer)

\* C12: the address the latest successful allocate returned lies in the buffer
\* of the block that served it (the current block) at an offset that is a
\* multiple of the alignment unit; and the offset and the capacity of every
\* block of every arena are multiples of that unit.
C12_Aligned ==
  /\ last.status = "ok" =>
        /\ OffsetIn(CurrentBlock(impl[last.impl]), last.ptr) % AlignUnit = 0
        /\ returned[Len(returned)].ptr = last.ptr
  /\ \A r \in Constructed : \A k \in DOMAIN impl[r].blocks :
        /\ impl[r].blocks[k].m_index % AlignUnit = 0
        /\ impl[r].blocks[k].m_bufferSize % AlignUnit = 0

\* C12 witness: two requests of 31 bytes, not a multiple of the unit, served
\* by one block; the second lies at offset 32 and the block's offset is 64
C12_Witness ==
  /\ last.status = "ok" /\ last.numBytes = 31 /\ Len(returned) = 2
  /\ returned[1].numBytes = 31 /\ returned[1].impl = last.impl
  /\ OffsetIn(CurrentBlock(impl[last.impl]), last.ptr) = 32
  /\ CurrentBlock(impl[last.impl]).m_index = 64

\* ---------------------------------------------------------------------------
\* Where the members the code assigns lie in the storage the store supplied:
\* the byte offsets of the members of _memblock and of _memblockimpl (with an
\* MMappedRegion as m_alloc), each member WordBytes wide.
WordBytes == 8
OffNext == 0
OffBufferSize == 8
OffIndex == 16
OffNumBytesAllocated == 16
OffRefCount == 24
OffHead == 48
OffCurrent == 56

\* the bytes [lo, hi)
Span(lo, len) == [lo |-> lo, hi |-> lo + len]

\* the bytes of a block header that a step taking the block from old to new
\* assigns
BlockFieldWrites(old, new) ==
  (IF old.m_next # new.m_next THEN {Span(new.self + OffNext, WordBytes)} ELSE {})
    \cup (IF old.m_index # new.m_index THEN {Span(new.self + OffIndex, WordBytes)} ELSE {})

\* the bytes the constructor of a block assigns (m_bufferSize, m_index,
\* m_buffer: every member but m_next), and m_next if a later block was linked
NewBlockWrites(b) ==
  {Span(b.self + OffBufferSize, SizeofMemblock - OffBufferSize)}
    \cup (IF b.m_next # Indeterminate THEN {Span(b.self + OffNext, WordBytes)} ELSE {})

\* the bytes of the header of a block whose buffer the store refused: the
\* constructor had assigned m_bufferSize and m_index when the store threw
LeakedHeaderWrites(im, im2) ==
  IF Len(im2.blocks) = Len(im.blocks)
       /\ im2.m_alloc.m_numBytesAllocated # im.m_alloc.m_numBytesAllocated
  THEN {Span(im.m_alloc.m_addr + im.m_alloc.m_numBytesAllocated + OffBufferSize,
             2 * WordBytes)}
  ELSE {}

\* the bytes of the arena state that a step taking it from im to im2 assigns
ArenaFieldWrites(im, im2) ==
  (IF im.m_refCount # im2.m_refCount THEN {Span(im.self + OffRefCount, WordBytes)} ELSE {})
    \cup (IF im.m_head # im2.m_head THEN {Span(im.self + OffHead, WordBytes)} ELSE {})
    \cup (IF im.m_current # im2.m_current THEN {Span(im.self + OffCurrent, WordBytes)} ELSE {})
    \cup (IF im.m_alloc.m_numBytesAllocated # im2.m_alloc.m_numBytesAllocated
          THEN {Span(im.self + OffNumBytesAllocated, WordBytes)} ELSE {})

\* all bytes the allocator's code assigns in a step that takes a live arena
\* state from im to im2
Writes(im, im2) ==
  ArenaFieldWrites(im, im2) \cup LeakedHeaderWrites(im, im2)
    \cup UNION {IF k <= Len(im.blocks)
                THEN BlockFieldWrites(im.blocks[k], im2.blocks[k])
                ELSE NewBlockWrites(im2.blocks[k]) : k \in DOMAIN im2.blocks}

\* a span of assigned bytes meets the returned region a
Touches(w, a) == w.lo < RegionEnd(a) /\ a.ptr < w.hi

\* C13: no step that leaves an arena live (allocate, deallocate, copy, rebind,
\* a destroy that is not the last) assigns a byte of a region of n > 0 bytes
\* returned before the step.  (Stated as the claim states it; the code breaks
\* it when a returned region reaches past the bytes of its block's buffer.)
C13_ReturnedBytesUnchanged ==
  [][\A r \in Regions :
       (impl[r].state = "live" /\ impl'[r].state = "live") =>
         \A w \in Writes(impl[r], impl'[r]) : \A k \in DOMAIN returned :
           returned[k].numBytes > 0 => ~Touches(w, returned[k])]_vars

\* ---------------------------------------------------------------------------
\* the constructor calls (origins) that have a live handle
LiveOrigins == {h.origin : h \in LiveHandles}

\* the place in impl of the arena state that the handles of origin o reference
SlotOf(o) == ImplOf((CHOOSE h \in LiveHandles : h.origin = o).m_impl)

\* the origin of the handle a step was made through, where the step shows it
\* (a handle made or destroyed, a region returned); 0 where it does not
ActingOrigin ==
  IF BagCardinality(handles') > BagCardinality(handles) THEN Added.origin
  ELSE IF BagCardinality(handles') < BagCardinality(handles) THEN Removed.origin
  ELSE IF Len(returned') > Len(returned) THEN returned'[Len(returned')].origin
  ELSE 0

\* C14: the regions of n > 0 bytes returned through handles of two different
\* constructor calls never overlap; a step made through a handle of one
\* constructor call leaves the chain, the offsets and the refcount of the arena
\* state of the other as they were; and no step changes those of both.
\* (Stated as the claim states it, for two constructor calls given the same
\* store object too; the code breaks it there.)
C14_ArenasApart ==
  /\ [](\A i, j \in DOMAIN returned :
          (returned[i].origin # returned[j].origin
             /\ returned[i].numBytes > 0 /\ returned[j].numBytes > 0)
            => ~Overlap(returned[i], returned[j]))
  /\ [][\A q \in LiveOrigins :
          LET rq == SlotOf(q) IN
          /\ ActingOrigin \notin {0, q} =>
                ArenaView(impl'[rq]) = ArenaView(impl[rq])
          /\ \A o \in LiveOrigins \ {q} :
                ~(/\ ArenaView(impl'[rq]) # ArenaView(impl[rq])
                  /\ ArenaView(impl'[SlotOf(o)]) # ArenaView(impl[SlotOf(o)]))]_vars

\* ---------------------------------------------------------------------------
\* no thread is between the load and the store of a count
AllIdle == \A t \in Threads : thr.pc[t] = "idle"

\* the refcount of the arena of region r is what its live handles require:
\* live with as many handles as it counts, or torn down once with none left
RefCountExact(r) ==
  \/ impl[r].state = "live" /\ HandlesOn(r) > 0 /\ impl[r].m_refCount = HandlesOn(r)
  \/ impl[r].state = "destroyed" /\ NumLive = 0 /\ teardowns[r] = 1

\* C15: with two unsynchronised threads the refcount can come to differ from
\* the number of live handles, and it does so only by a lost update: whenever
\* no thread is mid-operation, the count is exact unless some store wrote a
\* value computed from a count that had changed since its load.  (That the
\* differing state is reached is C15_Witness.)
C15_ExactUnlessLostUpdate ==
  (AllIdle /\ ~crashed) => (RefCountExact(1) \/ thr.stale)

\* C15 witness: an update was lost and the arena has been torn down while a
\* handle of it is still live, both threads idle
C15_Witness ==
  /\ AllIdle /\ ~crashed /\ thr.stale
  /\ impl[1].state = "destroyed" /\ teardowns[1] = 1 /\ NumLive > 0

\* ---------------------------------------------------------------------------
\* the requested sizes of the first k allocate calls that returned a region of
\* the arena of region r, summed as unbounded integers
RECURSIVE SumRequested(_, _)
SumRequested(r, k) ==
  IF k = 0 THEN 0
  ELSE (IF returned[k].impl = r THEN returned[k].numBytes ELSE 0) + SumRequested(r, k - 1)

\* the number of allocate calls that returned a region of the arena of region r
NumSuccessful(r) == Cardinality({k \in DOMAIN returned : returned[k].impl = r})

\* C16: in the extended variant m_numAllocate is the number of allocate calls
\* that succeeded, m_numBytesAllocated the sum of their requested sizes and
\* m_numDeallocate the number of deallocate calls made; and a deallocate call
\* changes the deallocation counter and nothing else.  (Stated as the claim
\* states it; the code also counts the calls that return the null sentinel.)
C16_CountersExact ==
  /\ [](\A r \in Constructed :
          /\ ext[r].m_numAllocate = NumSuccessful(r)
          /\ ext[r].m_numBytesAllocated = SumRequested(r, Len(returned))
          /\ ext[r].m_numDeallocate = ext[r].notified)
  /\ [][\A r \in Regions :
          ext'[r].notified # ext[r].notified =>
            /\ ext' = [ext EXCEPT ![r].notified = @ + 1, ![r].m_numDeallocate = @ + 1]
            /\ UNCHANGED <<impl, handles, crashed, returned, released, teardowns, last,
                           numAllocs>>]_vars

\* ---------------------------------------------------------------------------
\* C17: an allocate call asks the store for at most one new block (one header
\* and one buffer) and adds at most one block to the chain; and a request of
\* more bytes than the whole store holds ends with the store's exhaustion
\* failure, having grown nothing.  (Stated as the claim states it; the code
\* breaks the second part when the size arithmetic wraps.)
C17_OneGrowthAttempt ==
  /\ [](/\ last.storeAllocs <= 2
        /\ last.numBytes > RegionBytes =>
              (last.status = "throw" /\ ~last.grew))
  /\ [][\A r \in Regions :
          impl[r].state = "live" => Len(impl'[r].blocks) <= Len(impl[r].blocks) + 1]_vars

\* ---------------------------------------------------------------------------
\* C18: every block of a live arena has 0 <= m_index <= m_bufferSize, and the
\* m_index of an existing block changes only in a step that is a successful
\* allocate on its arena, which raises it by exactly the requested byte count
\* rounded up to the alignment unit.  (Stated as the claim states it; the code
\* breaks the second part when m_index + roundedSize wraps.)
C18_OffsetWithinCapacity ==
  /\ [](\A r \in Regions : impl[r].state = "live" =>
           \A i \in DOMAIN impl[r].blocks :
              /\ 0 <= impl[r].blocks[i].m_index
              /\ impl[r].blocks[i].m_index <= impl[r].blocks[i].m_bufferSize)
  /\ [][\A r \in Regions :
          (impl[r].state = "live" /\ impl'[r].state = "live") =>
            \A i \in DOMAIN impl[r].blocks :
               impl'[r].blocks[i].m_index # impl[r].blocks[i].m_index =>
                 /\ numAllocs' = numAllocs + 1
                 /\ last'.status = "ok"
                 /\ last'.impl = r
                 /\ impl'[r].blocks[i].m_index =
                      impl[r].blocks[i].m_index + RoundUp(last'.numBytes)]_vars

\* ---------------------------------------------------------------------------
\* the byte counts Alloc::allocate can pass down to _memblock::allocate
ByteSizes == {Wrap(c * sz) : c \in Counts \cup ChainCounts, sz \in ElemSizes}

\* C19: on every block of a live arena and for every byte count n,
\* _memblock::allocate(n) returns the failure sentinel exactly when
\* m_index + roundUp(n) > m_bufferSize, and a failing call leaves the block
\* (offset, capacity, buffer, next link) as it was.  (Stated as the claim
\* states it; the code breaks the first part when the size arithmetic wraps.)
C19_BlockFailsExactly ==
  \A r \in Regions : impl[r].state = "live" =>
    \A i \in DOMAIN impl[r].blocks : \A n \in ByteSizes :
      LET b == impl[r].blocks[i]
          a == memblock_allocate(b, n) IN
      /\ (a.ptr = NULL) <=> (b.m_index + RoundUp(n) > b.m_bufferSize)
      /\ (a.ptr = NULL) => (a.blk = b)

\* ---------------------------------------------------------------------------
\* the header addresses of the blocks an arena has made, oldest first
BlockAddrs(im) == [i \in DOMAIN im.blocks |-> im.blocks[i].self]

\* C20: while an arena is live, following m_next from m_head visits exactly
\* the blocks made so far in the order they were made, m_head is the first of
\* them and m_current the last, and nothing has been handed back to the
\* store; and a step that leaves the arena live keeps m_head, keeps every
\* existing block's address, buffer and capacity, and adds either no block or
\* exactly one, which an allocate that grew links behind the old current
\* block and makes current.
C20_ChainAppendOnly ==
  /\ [](\A r \in Regions : impl[r].state = "live" =>
           /\ impl[r].blocks # <<>>
           /\ Chain(impl[r]) = BlockAddrs(impl[r])
           /\ impl[r].m_head = impl[r].blocks[1].self
           /\ impl[r].m_current = impl[r].blocks[Len(impl[r].blocks)].self
           /\ released[r] = <<>>)
  /\ [][\A r \in Regions :
          (impl[r].state = "live" /\ impl'[r].state = "live") =>
            LET old == impl[r].blocks
                new == impl'[r].blocks IN
            /\ impl'[r].m_head = impl[r].m_head
            /\ Len(new) \in {Len(old), Len(old) + 1}
            /\ \A i \in DOMAIN old :
                  /\ new[i].self = old[i].self
                  /\ new[i].m_buffer = old[i].m_buffer
                  /\ new[i].m_bufferSize = old[i].m_bufferSize
            /\ Len(new) = Len(old) => impl'[r].m_current = impl[r].m_current
            /\ Len(new) = Len(old) + 1 =>
                  /\ numAllocs' = numAllocs + 1 /\ last'.grew /\ last'.impl = r
                  /\ new[Len(old)].m_next = new[Len(new)].self
                  /\ impl'[r].m_current = new[Len(new)].self]_vars

\* C20 witness: an arena that has grown twice: three blocks linked from the
\* head, the third one current
C20_Witness ==
  \E r \in Regions :
    /\ impl[r].state = "live" /\ Len(impl[r].blocks) = 3
    /\ Chain(impl[r]) = BlockAddrs(impl[r])
    /\ impl[r].m_current = impl[r].blocks[3].self
    /\ impl[r].m_head = impl[r].blocks[1].self

\* ---------------------------------------------------------------------------
\* C21: nothing is handed back to the store while an arena is live; a torn
\* down arena has handed back its blocks in chain order from the head (each
\* block's buffer, then its header) through its member store, the arena
\* state's own storage is handed back only after the last block's calls and
\* through the copy of the store that destroy took before the destructor ran,
\* and when the walk ended at the tail block that call is the last one.
C21_TeardownOrder ==
  \A r \in Regions :
    /\ impl[r].state = "live" => (released[r] = <<>> /\ via[r] = <<>>)
    /\ impl[r].state = "destroyed" =>
         LET calls == released[r]
             chain == Chain(impl[r])
             n == Len(chain)
         IN /\ n >= 1 /\ n = Len(impl[r].blocks) /\ Len(calls) >= 2 * n
            /\ Len(via[r]) = Len(calls)
            /\ \A k \in 1 .. n :
                 /\ calls[2 * k - 1] = impl[r].blocks[BlockAt(impl[r], chain[k])].m_buffer
                 /\ calls[2 * k] = chain[k]
                 /\ via[r][2 * k - 1] = "m_alloc" /\ via[r][2 * k] = "m_alloc"
            /\ \A i \in DOMAIN calls :
                 (calls[i] = impl[r].self \/ via[r][i] = "allocImpl") =>
                    /\ i = 2 * n + 1 /\ i = Len(calls)
                    /\ calls[i] = impl[r].self /\ via[r][i] = "allocImpl"
            /\ ~crashed => (Len(calls) = 2 * n + 1 /\ calls[Len(calls)] = impl[r].self)

\* C21 witness: a torn down arena of three blocks whose walk ended at the
\* tail: seven calls, the last one the arena state's storage through the copy
C21_Witness ==
  \E r \in Regions :
    /\ impl[r].state = "destroyed" /\ ~crashed
    /\ Len(impl[r].blocks) = 3 /\ Len(released[r]) = 7
    /\ released[r][7] = impl[r].self /\ via[r][7] = "allocImpl"
    /\ released[r][2] = impl[r].m_head

\* ---------------------------------------------------------------------------
\* how many times x occurs in the sequence s
Occurrences(s, x) == Cardinality({i \in DOMAIN s : s[i] = x})

\* the sequences s and t hold the same addresses, each as many times
SameRegions(s, t) ==
  \A x \in {s[i] : i \in DOMAIN s} \cup {t[i] : i \in DOMAIN t} :
    Occurrences(s, x) = Occurrences(t, x)

\* the regions an arena state accounts for: its own storage, and the buffer
\* and the header of every block of its chain
HeldRegions(im) == DisposeCalls(im, BlockAddrs(im)) \o <<im.self>>

\* C22: while an arena is live the regions its store has handed out are
\* exactly its own storage and the header and buffer of every block of its
\* chain (nothing has been handed back yet); and once it is torn down, the
\* walk having ended at the tail, the regions handed back are those handed
\* out, each once.  (Stated as the claim states it; the code breaks it when
\* the store fails on the buffer of a new block after supplying its header.)
C22_ObtainedIsHeld ==
  \A r \in Regions :
    /\ impl[r].state = "live" =>
         (released[r] = <<>> /\ SameRegions(impl[r].m_alloc.handedOut, HeldRegions(impl[r])))
    /\ (impl[r].state = "destroyed" /\ ~crashed) =>
         SameRegions(impl[r].m_alloc.handedOut, released[r])

\* ---------------------------------------------------------------------------
\* C23: the region the latest successful allocate returned, n bytes from its
\* offset in the block that served it (the current block), ends within the
\* bytes that block's constructor asked of the store for its buffer.  (Stated
\* as the claim states it; the code bounds the offset by the rounded capacity,
\* not by the size it asked the store for.)
C23_WithinObtainedBuffer ==
  last.status = "ok" =>
    LET b == CurrentBlock(impl[last.impl]) IN
    /\ OffsetIn(b, last.ptr) >= 0
    /\ OffsetIn(b, last.ptr) + last.numBytes <= b.requested

\* ---------------------------------------------------------------------------
\* C24: in a program that assigns handles, the refcount of every live arena
\* state is the number of live handles that reference it, every live handle
\* references a live arena state (none was torn down under it), and an arena
\* state no handle references any more has been torn down.  (Stated as the
\* claim states it; the implicit operator= copies m_impl without counting.)
C24_AssignKeepsRefCount ==
  /\ \A r \in LiveImpls : impl[r].m_refCount = HandlesOn(r)
  /\ \A h \in LiveHandles : impl[ImplOf(h.m_impl)].state = "live"
  /\ \A r \in Constructed : HandlesOn(r) = 0 => impl[r].state = "destroyed"

\* ---------------------------------------------------------------------------
\* C25: a step that leaves an arena live changes the offset of no block other
\* than the one that is the current block after the step: a block that a
\* growth has put behind the current block keeps its offset from then on,
\* whatever free space it has.
C25_OnlyCurrentBlockUsed ==
  [][\A r \in Regions :
       (impl[r].state = "live" /\ impl'[r].state = "live") =>
         \A i \in DOMAIN impl[r].blocks :
            impl[r].blocks[i].self # impl'[r].m_current =>
              impl'[r].blocks[i].m_index = impl[r].blocks[i].m_index]_vars

\* C25 witness: after a growth, a request that the first block had room for
\* was served, without growth, from the second (current) block
C25_Witness ==
  /\ last.status = "ok" /\ ~last.grew /\ last.numBytes > 0 /\ Len(returned) = 2
  /\ LET im == impl[last.impl] IN
     /\ im.state = "live" /\ Len(im.blocks) = 2
     /\ im.m_current = im.blocks[2].self
     /\ im.blocks[1].m_index + RoundUp(last.numBytes) <= im.blocks[1].requested
     /\ OffsetIn(im.blocks[2], last.ptr) > 0
     /\ OffsetIn(im.blocks[2], last.ptr) + RoundUp(last.numBytes) = im.blocks[2].m_index

\* ---------------------------------------------------------------------------
\* Alloc::max_size for elements of sizeofT bytes
max_size(sizeofT) == (Modulus - 1) \div sizeofT

\* C26: for every request a handle can make within max_size (count elements
\* of sizeofT bytes) the byte count count * sizeofT, its rounding and its
\* double are what they are over the unbounded integers: roundSize(n) is the
\* smallest multiple of the alignment unit that is >= n, the growth size for
\* n above half the default size is 2n, and no block of a live arena accepts
\* a request whose rounded size is below n; and the latest request served was
\* rounded to no less than its size.  (Stated as the claim states it; the
\* code computes all three in size_t without a range check.)
C26_NoWrapAround ==
  /\ \A sz \in ElemSizes : \A c \in {x \in Counts : x <= max_size(sz)} :
       LET n == Wrap(c * sz) IN
       /\ n = c * sz
       /\ roundSize(n) = RoundUp(n)
       /\ \A r \in LiveImpls :
            /\ n > impl[r].m_defaultSize \div 2 => growSize(n, impl[r].m_defaultSize) = 2 * n
            /\ \A i \in DOMAIN impl[r].blocks :
                 memblock_allocate(impl[r].blocks[i], n).ptr # NULL => roundSize(n) >= n
  /\ last.status = "ok" => roundSize(last.numBytes) >= last.numBytes

\* ---------------------------------------------------------------------------
\* the position in the chain of the block whose header is at p; 0 if none
BlockIndex(im, p) ==
  IF \E i \in DOMAIN im.blocks : im.blocks[i].self = p THEN BlockAt(im, p) ELSE 0

\* an arena state without its addresses: life cycle, refcount, default size
\* and the chain as capacities, offsets and links by position
ArenaShape(im) ==
  [state |-> im.state, m_refCount |-> im.m_refCount, m_defaultSize |-> im.m_defaultSize,
   m_head |-> BlockIndex(im, im.m_head), m_current |-> BlockIndex(im, im.m_current),
   blocks |-> [i \in DOMAIN im.blocks |->
                 [m_bufferSize |-> im.blocks[i].m_bufferSize,
                  m_index |-> im.blocks[i].m_index,
                  m_next |-> BlockIndex(im, im.blocks[i].m_next)]]]

\* the regions the arena of region r has returned, oldest first
ReturnedBy(r) == SelectSeq(returned, LAMBDA a : a.impl = r)

\* where a returned region lies: the block whose buffer holds its address and
\* its offset in that buffer
PlaceOf(im, a) ==
  LET i == CHOOSE k \in DOMAIN im.blocks :
             /\ im.blocks[k].m_buffer <= a.ptr
             /\ a.ptr < im.blocks[k].m_buffer + im.blocks[k].m_bufferSize
  IN [block |-> i, offset |-> a.ptr - im.blocks[i].m_buffer, numBytes |-> a.numBytes]

ReturnedPlaces(r) ==
  [k \in DOMAIN ReturnedBy(r) |-> PlaceOf(impl[r], ReturnedBy(r)[k])]

\* the two variants agree on chain, capacities, offsets, returned regions,
\* refcount and teardown
PairIdentical ==
  /\ ArenaShape(impl[Basic]) = ArenaShape(impl[Extended])
  /\ ReturnedPlaces(Basic) = ReturnedPlaces(Extended)
  /\ teardowns[Basic] = teardowns[Extended]

\* the number of requests the store of region r has granted
Granted(r) == Len(impl[r].m_alloc.handedOut)

====
